---- MODULE Spec2Model ----
(***************************************************************************)
(* Model of the fetch server of nzwirelessmap-fetch (src/fetch.go, the     *)
(* revision at lines 1-295).  One run of fetchInternal is a sequence of    *)
(* blocking calls (HTTP fetch, object-store calls, file-system calls,     *)
(* subprocesses); each call is one action, so that runs of concurrent     *)
(* requests interleave between calls.  The object store, the temp         *)
(* directory and the origin are the environment: every call into them may *)
(* succeed or fail, and the origin may answer every request differently.  *)
(***************************************************************************)
EXTENDS Integers, Sequences, FiniteSets, TLC

(* ---------------------------- bounds ----------------------------------- *)
\* requests served over the life of the process
MaxRuns == 2
\* distinct random suffixes ioutil.TempFile can draw
NumSuffixes == 2

\* the request slots: two requests are in flight at most, the least
\* concurrency in which runs overlap
Slots == {1, 2}

(* ---------------------------- values ----------------------------------- *)
\* payloads of the prism.mdb entries the origin publishes
Data == {1, 2}

\* a blob of bytes: its format, and what it was derived from
Blob(f, a, d) == [fmt |-> f, archive |-> a, d |-> d]
Absent == Blob("none", <<>>, 0)
Empty == Blob("empty", <<>>, 0)
\* a response body that is not a zip archive
NotAZip == Blob("junk", <<>>, 0)

Entry(n, d) == [name |-> n, data |-> d]
Readme == Entry("readme.txt", 0)
\* the archives the origin serves: without the database, with it as the only
\* entry, and with it after another entry
Archives == { <<Readme>>,
              <<Entry("prism.mdb", 1)>>,
              <<Readme, Entry("prism.mdb", 2)>> }
Bodies == {Blob("zip", a, 0) : a \in Archives} \cup {NotAZip}
\* the status codes of the origin; http.Get reports none of them as an error
Statuses == {200, 503}
\* the bodies that can come with a status: an archive with 200, an error page
\* with an error status
BodiesOf(status) == IF status = 200 THEN Bodies \ {NotAZip} ELSE {NotAZip}

\* values of the Last-Modified header the origin sends ("" when absent)
Headers == {"", "yesterday",
            "Tue, 01 Jan 2030 00:00:00 GMT",
            "Wed, 02 Jan 2030 00:00:00 GMT"}

NoTime == 0
\* time.Parse(http.TimeFormat, lm): the instant, as a day number, or an error
ParseHTTPTime(lm) ==
    CASE lm = "Tue, 01 Jan 2030 00:00:00 GMT" -> [ok |-> TRUE, t |-> 1]
      [] lm = "Wed, 02 Jan 2030 00:00:00 GMT" -> [ok |-> TRUE, t |-> 2]
      [] OTHER -> [ok |-> FALSE, t |-> NoTime]

\* t.Format(time.RFC3339)
FormatRFC3339(t) ==
    CASE t = 1 -> "2030-01-01T00:00:00Z"
      [] t = 2 -> "2030-01-02T00:00:00Z"
      [] OTHER -> "0001-01-01T00:00:00Z"

Times == {1, 2}

\* object names in the bucket
LatestKey == "prism.json/latest"
\* "prism.json/" + tSuffix and the like, for every instant a run can hold
JSONKeys == [t \in Times \cup {NoTime} |-> "prism.json/" \o FormatRFC3339(t)]
CSVKeys == [t \in Times \cup {NoTime} |-> "prism.csv/" \o FormatRFC3339(t)]
ZIPKeys == [t \in Times \cup {NoTime} |-> "prism.zip/" \o FormatRFC3339(t)]
JSONKey(t) == JSONKeys[t]
CSVKey(t) == CSVKeys[t]
ZIPKey(t) == ZIPKeys[t]
Keys == {LatestKey} \cup {JSONKey(t) : t \in Times}
          \cup {CSVKey(t) : t \in Times} \cup {ZIPKey(t) : t \in Times}

\* names ioutil.TempFile(os.TempDir(), pattern) can create
Suffixes == 1..NumSuffixes
TempName(pattern, s) == <<pattern, s>>
NoName == <<"", 0>>
TempNames == {TempName(p, s) : p \in {"prism.mdb", "prism.sqlite3"}, s \in Suffixes}

NoOwner == 0
NoFile == [owner |-> NoOwner, data |-> Absent]

VARIABLES
    run,      \* per request slot: the locals of fetchInternal and its position
    store,    \* the bucket: object name -> content, Absent when no object
    files,    \* the temp directory: file name -> owner and content
    handles,  \* open handles of the process: <<slot, what>>
    started,  \* requests accepted so far
    cancelled, \* slots whose request the client has given up while it ran
    hist      \* history: lastOk, the structured output of the version of the
              \* last run that returned nil; latestBy, the structured output
              \* of the archive of the run that last wrote latest; latestT,
              \* the timestamp of that run; latestLog, everything ever
              \* written to latest

vars == <<run, store, files, handles, started, cancelled, hist>>

(* ------------------------ pure functions ------------------------------- *)
\* findPrismMdb: index of the first entry named exactly "prism.mdb", 0 if none
RECURSIVE FindFrom(_, _)
FindFrom(fs, i) ==
    IF i > Len(fs) THEN 0
    ELSE IF fs[i].name = "prism.mdb" THEN i
    ELSE FindFrom(fs, i + 1)

\* findPrismMdb that takes the first entry whatever its name
findPrismMdb_AnyEntry(zipR) == IF Len(zipR) > 0 THEN 1 ELSE 0

findPrismMdb(zipR) == FindFrom(zipR, 1)

\* lastModifiedTime that takes a header it cannot parse for the first instant
lastModifiedTime_Lenient(hdr) ==
    LET p == ParseHTTPTime(hdr) IN
    [t |-> IF p.ok THEN p.t ELSE 1, err |-> ""]

\* lastModifiedTime: resp.Header.Get("Last-Modified") parsed as http.TimeFormat
lastModifiedTime(hdr) ==
    LET p == ParseHTTPTime(hdr) IN
    [t |-> p.t,
     err |-> IF p.ok THEN "" ELSE "Couldn't parse Last-Modified header"]

\* what the external converters produce from their input
JavaOut(mdb) ==
    IF mdb.fmt = "mdb" THEN Blob("sqlite", <<>>, mdb.d) ELSE Blob("sqlite", <<>>, 0)
AnalyzeOut(db) ==
    IF db.fmt = "sqlite" THEN Blob("sqlite+stat", <<>>, db.d) ELSE db
SelectOut(db) ==
    IF db.fmt = "sqlite+stat" THEN Blob("csv", <<>>, db.d) ELSE Blob("csv", <<>>, 0)
PythonOut(csv) ==
    IF csv.fmt = "csv" THEN Blob("json", <<>>, csv.d) ELSE Blob("json", <<>>, 0)

\* what a converter that fails has printed: the bytes of "corrupt header"
CorruptHeader == <<99, 111, 114, 114, 117, 112, 116, 32, 104, 101, 97, 100, 101, 114>>
Outputs == {CorruptHeader}

\* the character of a byte, for the bytes the diagnostics are made of
Char(b) ==
    CASE b = 32 -> " " [] b = 97 -> "a" [] b = 99 -> "c" [] b = 100 -> "d"
      [] b = 101 -> "e" [] b = 104 -> "h" [] b = 111 -> "o" [] b = 112 -> "p"
      [] b = 114 -> "r" [] b = 116 -> "t" [] b = 117 -> "u" [] OTHER -> "?"
DigitChar(n) ==
    CASE n = 0 -> "0" [] n = 1 -> "1" [] n = 2 -> "2" [] n = 3 -> "3"
      [] n = 4 -> "4" [] n = 5 -> "5" [] n = 6 -> "6" [] n = 7 -> "7"
      [] n = 8 -> "8" [] OTHER -> "9"

\* the decimal digits of n, as characters
RECURSIVE Digits(_)
Digits(n) ==
    IF n < 10 THEN <<DigitChar(n)>>
    ELSE Digits(n \div 10) \o <<DigitChar(n % 10)>>

\* selectErr.String(), jsonErr.String(): the text of the bytes
BufferString(bs) == [i \in 1..Len(bs) |-> Char(bs[i])]

RECURSIVE SpacedDigits(_)
SpacedDigits(bs) ==
    IF bs = <<>> THEN <<>>
    ELSE IF Len(bs) = 1 THEN Digits(bs[1])
    ELSE Digits(bs[1]) \o <<" ">> \o SpacedDigits(Tail(bs))

\* fmt's %v of a []byte: the values of the bytes in decimal, in brackets
FormatV(bs) == <<"[">> \o SpacedDigits(bs) \o <<"]">>

\* the string made of a sequence of characters
RECURSIVE Concat(_)
Concat(cs) == IF cs = <<>> THEN "" ELSE Head(cs) \o Concat(Tail(cs))

\* fmt.Errorf("<what>: %v, <stream>: %v", err, <rendered>) for a subprocess
\* that exited with status 1
ExitError(what, stream, rendered) ==
    what \o ": exit status 1, " \o stream \o ": " \o Concat(rendered)

\* the renderings and the errors of the four converters, by what they printed
OutputV == [out \in Outputs |-> FormatV(out)]
OutputText == [out \in Outputs |-> BufferString(out)]
JavaError ==
    [out \in Outputs |->
        ExitError("couldn't read output from java", "output", FormatV(out))]
AnalyzeError ==
    [out \in Outputs |-> ExitError("couldn't analyze db", "output", FormatV(out))]
SelectError ==
    [out \in Outputs |-> ExitError("couldn't select", "stderr", BufferString(out))]
PythonError ==
    [out \in Outputs |->
        ExitError("couldn't convert to json", "stderr", BufferString(out))]

\* every error fetchInternal can return
Errors ==
    {"Couldn't create storage client", "Get: connection failed",
     "Couldn't parse Last-Modified header", "couldn't get attrs",
     "read body failed", "error writing to cloud storage",
     "error closing cloud storage writer", "error opening zip",
     "couldn't find prism.mdb: no prism.mdb found in prism.zip",
     "couldn't open prism.mdb", "couldn't create temp file",
     "couldn't read prism.mdb from zip", "open select_point_to_point_links.sql"}
    \cup {JavaError[out] : out \in Outputs} \cup {AnalyzeError[out] : out \in Outputs}
    \cup {SelectError[out] : out \in Outputs} \cup {PythonError[out] : out \in Outputs}

\* fmt.Fprintf(w, "/fetch failed: %v", err), for every error
FailedBody == [e \in Errors |-> "/fetch failed: " \o e]

\* a handler that writes the error to the log only
fetch_LogOnly(err) == [status |-> 200, body |-> "OK"]

\* the response the handler fetch renders for the result of fetchInternal
fetch(err) ==
    IF err # "" THEN [status |-> 500, body |-> FailedBody[err]]
    ELSE [status |-> 200, body |-> "OK"]

(* --------------------------- state ------------------------------------- *)
NoResponse == [status |-> 0, body |-> ""]

\* the locals of fetchInternal before its first statement
NewRun ==
    [pc |-> "idle", hdr |-> "", status |-> 0,
     t |-> NoTime, exists |-> FALSE, zipTmp |-> Empty, mdbIdx |-> 0,
     mdbTmp |-> NoName, tmpSqlite |-> NoName,
     tmpCSV |-> Empty, tmpJSON |-> Empty,
     defers |-> <<>>, err |-> "", http |-> NoResponse,
     writes |-> <<>>, convs |-> <<>>, hasMdb |-> FALSE, looked |-> FALSE,
     seen |-> FALSE, temps |-> 0, unclosed |-> {},
     emitted |-> <<>>, diag |-> <<>>, served |-> Empty]


\* whether an archive has an entry of the database's name
HasMdb(body) ==
    body.fmt = "zip" /\ \E i \in DOMAIN body.archive : body.archive[i].name = "prism.mdb"

\* the structured output of a version: the JSON of the links of its database
StructuredOutput(body) ==
    LET mdbs == {i \in DOMAIN body.archive : body.archive[i].name = "prism.mdb"}
        first == CHOOSE i \in mdbs : \A j \in mdbs : i <= j
    IN  IF body.fmt = "zip" /\ mdbs # {}
        THEN Blob("json", <<>>, body.archive[first].data)
        ELSE Absent

Init ==
    /\ run = [r \in Slots |-> NewRun]
    /\ store = [k \in Keys |-> Absent]
    /\ files = [n \in TempNames |-> NoFile]
    /\ handles = {}
    /\ started = 0
    /\ cancelled = {}
    /\ hist = [lastOk |-> Absent, latestBy |-> Absent, latestT |-> NoTime,
            latestLog |-> {}]

(* ----------------------- deferred calls -------------------------------- *)
Deferred(op, what) == [op |-> op, what |-> what]
BodyHandle == <<"resp.Body", 0>>
MdbRHandle == <<"mdbR", 0>>
SqlHandle == <<"select_point_to_point_links.sql", 0>>

\* one deferred call of slot r: f.Close() or os.Remove(f.Name())
ApplyDefer(r, d, st) ==
    IF d.op = "remove"
    THEN [st EXCEPT !.files = [@ EXCEPT ![d.what] = NoFile]]
    ELSE [st EXCEPT !.handles = @ \ {<<r, d.what>>}]

\* the deferred calls run last-in first-out when fetchInternal returns
RECURSIVE RunDefers(_, _, _)
RunDefers(r, ds, st) ==
    IF ds = <<>> THEN st
    ELSE RunDefers(r, SubSeq(ds, 1, Len(ds) - 1), ApplyDefer(r, ds[Len(ds)], st))

(* ------------------------- fetchInternal ------------------------------- *)
\* the record of one subprocess: which converter ran and how it exited
Ran(conv, ok) == [conv |-> conv, ok |-> ok]

At(r, label) == run[r].pc = label

\* the statement after a call that succeeded
Goto(r, rec, label) == run' = [run EXCEPT ![r] = [rec EXCEPT !.pc = label]]

\* what is left of a run once fetchInternal has returned e: its locals are
\* gone; the result, the response, the header it was served, the archive it
\* published if it returned nil (the body it left unread if it skipped), and
\* the record of what it did remain
Returned(rec, e) ==
    [NewRun EXCEPT !.pc = "done", !.err = e, !.http = fetch(e),
                   !.hdr = rec.hdr, !.t = rec.t,
                   !.zipTmp = IF e = "" THEN rec.zipTmp ELSE Empty,
                   !.served = IF e = "" /\ rec.exists THEN rec.served ELSE Empty, !.exists = rec.exists, !.hasMdb = rec.hasMdb,
                   !.looked = rec.looked, !.seen = rec.seen, !.temps = rec.temps,
                   !.writes = rec.writes, !.convs = rec.convs,
                   !.emitted = rec.emitted, !.diag = rec.diag]

\* return err (nil is ""): the deferred calls run, then the handler fetch
\* renders the response.  fs and hs are the files and handles at the return.
Return(r, rec, e, fs, hs) ==
    LET st == RunDefers(r, rec.defers, [files |-> fs, handles |-> hs])
        rest == {h \in st.handles : h[1] = r}
        out == IF rec.exists THEN store[JSONKey(rec.t)] ELSE rec.tmpJSON
    IN  /\ files' = st.files
        /\ handles' = st.handles \ rest
        /\ run' = [run EXCEPT ![r] = [Returned(rec, e) EXCEPT
                                        !.unclosed = {h[2] : h \in rest}]]
        /\ hist' = [hist EXCEPT
                      !.lastOk = IF e = "" THEN out ELSE @]

\* a request arrives at /fetch: storage.NewClient
Start(r) ==
    /\ run[r].pc \in {"idle", "done"}
    /\ started < MaxRuns
    /\ started' = started + 1
    /\ cancelled' = cancelled \ {r}
    /\ UNCHANGED store
    /\ \E ok \in BOOLEAN :
         IF ok
         THEN /\ Goto(r, NewRun, "get")
              /\ UNCHANGED <<files, handles, hist>>
         ELSE Return(r, NewRun, "Couldn't create storage client", files, handles)

\* resp, err := http.Get(*prismZipURL); defer resp.Body.Close();
\* t, err := lastModifiedTime(resp).  The origin has chosen the body it
\* serves; the run has not read it yet.
HttpGet(r) ==
    /\ At(r, "get")
    /\ UNCHANGED <<store, started, cancelled>>
    /\ \E ok \in BOOLEAN :
         IF ~ok
         THEN Return(r, run[r], "Get: connection failed", files, handles)
         ELSE \E h \in Headers :
              LET got == [run[r] EXCEPT !.hdr = h,
                            !.defers = Append(@, Deferred("close", BodyHandle))]
                  hs == handles \cup {<<r, BodyHandle>>}
                  lm == lastModifiedTime(h)
              IN  IF lm.err # ""
                  THEN Return(r, got, lm.err, files, hs)
                  ELSE \E status \in Statuses : \E body \in BodiesOf(status) :
                       /\ Goto(r, [got EXCEPT !.status = status, !.served = body,
                                              !.t = lm.t], "exists")
                       /\ handles' = hs
                       /\ UNCHANGED <<files, hist>>

\* objectExists whose answer is not acted upon: the run goes on when the
\* record exists
ObjectExists_NoSkip(r) ==
    /\ At(r, "exists")
    /\ UNCHANGED <<store, started, cancelled>>
    /\ LET rec == [run[r] EXCEPT !.seen = store[JSONKey(run[r].t)] # Absent] IN
       \E ok \in BOOLEAN :
         IF ~ok
         THEN Return(r, rec, "couldn't get attrs", files, handles)
         ELSE /\ Goto(r, rec, "readbody")
              /\ UNCHANGED <<files, handles, hist>>

\* objectExists asked about the raw archive instead of the structured record
ObjectExists_OnZIP(r) ==
    /\ At(r, "exists")
    /\ UNCHANGED <<store, started, cancelled>>
    /\ LET rec == [run[r] EXCEPT !.seen = store[JSONKey(run[r].t)] # Absent] IN
       \E ok \in BOOLEAN :
         IF ~ok
         THEN Return(r, rec, "couldn't get attrs", files, handles)
         ELSE IF store[ZIPKey(run[r].t)] # Absent
         THEN Return(r, [rec EXCEPT !.exists = TRUE], "", files, handles)
         ELSE /\ Goto(r, rec, "readbody")
              /\ UNCHANGED <<files, handles, hist>>

\* a check that fetches the archive again when the attribute call fails
ObjectExists_Refetch(r) ==
    /\ At(r, "exists")
    /\ UNCHANGED <<store, started, cancelled>>
    /\ LET rec == [run[r] EXCEPT !.seen = store[JSONKey(run[r].t)] # Absent] IN
       \E ok \in BOOLEAN :
         IF ~ok
         THEN /\ Goto(r, rec, "get")
              /\ UNCHANGED <<files, handles, hist>>
         ELSE IF store[JSONKey(run[r].t)] # Absent
         THEN Return(r, [rec EXCEPT !.exists = TRUE], "", files, handles)
         ELSE /\ Goto(r, rec, "readbody")
              /\ UNCHANGED <<files, handles, hist>>

\* a check that also compares what is published with what the origin serves
ObjectExists_ContentAware(r) ==
    /\ At(r, "exists")
    /\ UNCHANGED <<store, started, cancelled>>
    /\ LET rec == [run[r] EXCEPT !.seen = store[JSONKey(run[r].t)] # Absent] IN
       \E ok \in BOOLEAN :
         IF ~ok
         THEN Return(r, rec, "couldn't get attrs", files, handles)
         ELSE IF store[JSONKey(run[r].t)] = StructuredOutput(run[r].served)
         THEN Return(r, [rec EXCEPT !.exists = TRUE], "", files, handles)
         ELSE /\ Goto(r, rec, "readbody")
              /\ UNCHANGED <<files, handles, hist>>

\* what blob.Attrs can answer about an object: its attributes when it is
\* there, storage.ErrObjectNotExist when it is not, or some other error
AttrsResults(key) ==
    {IF store[key] # Absent THEN "attrs" ELSE "ErrObjectNotExist", "unavailable"}

\* objectExists that answers "present" for storage.ErrObjectNotExist
objectExists_NotExistAsPresent(res) ==
    CASE res = "attrs" -> [exists |-> TRUE, err |-> ""]
      [] res = "ErrObjectNotExist" -> [exists |-> TRUE, err |-> ""]
      [] OTHER -> [exists |-> FALSE, err |-> "couldn't get attrs"]

\* objectExists that takes every error of Attrs for "no such object"
objectExists_ErrAsAbsent(res) ==
    [exists |-> res = "attrs", err |-> ""]

\* objectExists: the answer of Attrs turned into (exists, err)
objectExists(res) ==
    CASE res = "attrs" -> [exists |-> TRUE, err |-> ""]
      [] res = "ErrObjectNotExist" -> [exists |-> FALSE, err |-> ""]
      [] OTHER -> [exists |-> FALSE, err |-> "couldn't get attrs"]

\* exists, err := objectExists(ctx, blobJSON), and the early return
ObjectExists(r) ==
    /\ At(r, "exists")
    /\ UNCHANGED <<store, started, cancelled>>
    /\ LET rec == [run[r] EXCEPT !.seen = store[JSONKey(run[r].t)] # Absent] IN
       \E res \in AttrsResults(JSONKey(run[r].t)) :
         LET a == objectExists(res) IN
         IF a.err # ""
         THEN Return(r, rec, a.err, files, handles)
         ELSE IF a.exists
         THEN Return(r, [rec EXCEPT !.exists = TRUE], "", files, handles)
         ELSE /\ Goto(r, rec, "readbody")
              /\ UNCHANGED <<files, handles, hist>>

\* n, err := io.Copy(&zipTmp, resp.Body): the body streams in only now
ReadBody(r) ==
    /\ At(r, "readbody")
    /\ UNCHANGED <<store, started, cancelled>>
    /\ \E ok \in BOOLEAN :
         IF ok
         THEN /\ Goto(r, [run[r] EXCEPT !.zipTmp = run[r].served,
                            !.served = Empty,
                            !.hasMdb = HasMdb(run[r].served)], "writezip")
              /\ UNCHANGED <<files, handles, hist>>
         ELSE Return(r, run[r], "read body failed", files, handles)

\* writeToGCS whose error is dropped: the run goes on without the object
writeToGCS_ErrorDropped(r, key, content, next) ==
    /\ UNCHANGED <<started, cancelled>>
    /\ \E ok \in BOOLEAN :
         /\ store' = IF ok THEN [store EXCEPT ![key] = content] ELSE store
         /\ LET rec == IF ok THEN [run[r] EXCEPT !.writes = Append(@, key)]
                       ELSE run[r] IN
            IF next = "return"
            THEN Return(r, rec, "", files, handles)
            ELSE /\ Goto(r, rec, next)
                 /\ UNCHANGED <<files, handles>>
                 /\ hist' = IF key = LatestKey /\ ok
                            THEN [hist EXCEPT
                                    !.latestBy = StructuredOutput(run[r].zipTmp),
                                    !.latestT = run[r].t,
                                    !.latestLog = @ \cup {content}]
                            ELSE hist

\* writeToGCS that leaves a truncated object behind when it fails
writeToGCS_Partial(r, key, content, next) ==
    /\ UNCHANGED <<started, cancelled>>
    /\ \E ok \in BOOLEAN :
         IF ok
         THEN /\ store' = [store EXCEPT ![key] = content]
              /\ LET rec == [run[r] EXCEPT !.writes = Append(@, key)] IN
                 IF next = "return"
                 THEN Return(r, rec, "", files, handles)
                 ELSE /\ Goto(r, rec, next)
                      /\ UNCHANGED <<files, handles>>
                      /\ hist' = IF key = LatestKey
                                 THEN [hist EXCEPT
                                         !.latestBy = StructuredOutput(run[r].zipTmp),
                                         !.latestT = run[r].t,
                                         !.latestLog = @ \cup {content}]
                                 ELSE hist
         ELSE /\ store' = [store EXCEPT ![key] = Empty]
              /\ Return(r, run[r], "error writing to cloud storage", files, handles)

\* writeToGCS that does not look at the error of w.Close()
writeToGCS_CloseUnchecked(r, key, content, next) ==
    /\ UNCHANGED <<started, cancelled>>
    /\ \E res \in {"written", "copy failed", "close failed"} :
         IF res # "copy failed"
         THEN /\ store' = IF res = "written" THEN [store EXCEPT ![key] = content]
                          ELSE store
              /\ LET rec == [run[r] EXCEPT !.writes = Append(@, key)] IN
                 IF next = "return"
                 THEN Return(r, rec, "", files, handles)
                 ELSE /\ Goto(r, rec, next)
                      /\ UNCHANGED <<files, handles>>
                      /\ hist' = IF key = LatestKey /\ res = "written"
                                 THEN [hist EXCEPT
                                         !.latestBy = StructuredOutput(run[r].zipTmp),
                                         !.latestT = run[r].t,
                                         !.latestLog = @ \cup {content}]
                                 ELSE hist
         ELSE /\ UNCHANGED store
              /\ Return(r, run[r], "error writing to cloud storage", files, handles)

\* writeToGCS(ctx, o, f): io.Copy into the writer, then w.Close().  The
\* bucket commits an object when Close returns nil and not before: after a
\* failed copy the writer is left unclosed and nothing is committed, and a
\* Close that fails has committed nothing.
writeToGCS(r, key, content, next) ==
    /\ UNCHANGED <<started, cancelled>>
    /\ \E res \in {"written", "copy failed", "close failed"} :
         IF res = "written"
         THEN /\ store' = [store EXCEPT ![key] = content]
              /\ LET rec == [run[r] EXCEPT !.writes = Append(@, key)] IN
                 IF next = "return"
                 THEN Return(r, rec, "", files, handles)
                 ELSE /\ Goto(r, rec, next)
                      /\ UNCHANGED <<files, handles>>
                      /\ hist' = IF key = LatestKey
                                 THEN [hist EXCEPT
                                         !.latestBy = StructuredOutput(run[r].zipTmp),
                                         !.latestT = run[r].t,
                                         !.latestLog = @ \cup {content}]
                                 ELSE hist
         ELSE /\ UNCHANGED store
              /\ Return(r, run[r],
                        IF res = "copy failed" THEN "error writing to cloud storage"
                        ELSE "error closing cloud storage writer",
                        files, handles)

\* Save the prism.zip to a timestamped file on GCS
WriteZIP(r) ==
    /\ At(r, "writezip")
    /\ writeToGCS(r, ZIPKey(run[r].t), run[r].zipTmp, "openzip")

\* zip.NewReader, findPrismMdb, prismMDB.Open; defer mdbR.Close()
OpenZip(r) ==
    /\ At(r, "openzip")
    /\ UNCHANGED <<store, started, cancelled>>
    /\ IF run[r].zipTmp.fmt # "zip"
       THEN Return(r, run[r], "error opening zip", files, handles)
       ELSE LET i == findPrismMdb(run[r].zipTmp.archive)
                looked == [run[r] EXCEPT !.looked = TRUE] IN
            IF i = 0
            THEN Return(r, looked,
                        "couldn't find prism.mdb: no prism.mdb found in prism.zip",
                        files, handles)
            ELSE \E ok \in BOOLEAN :
                   IF ok
                   THEN /\ Goto(r, [looked EXCEPT !.mdbIdx = i,
                                      !.defers = Append(@, Deferred("close", MdbRHandle))],
                                "savemdb")
                        /\ handles' = handles \cup {<<r, MdbRHandle>>}
                        /\ UNCHANGED <<files, hist>>
                   ELSE Return(r, looked, "couldn't open prism.mdb", files, handles)

\* tempFile whose caller defers the Close but not the Remove
tempFile_NoRemove(r, st, pattern, field, s) ==
    LET n == TempName(pattern, s) IN
    [rec |-> [st.rec EXCEPT ![field] = n,
                            !.temps = @ + 1,
                            !.defers = Append(@, Deferred("close", n))],
     files |-> [st.files EXCEPT ![n] = [owner |-> r, data |-> Empty]],
     handles |-> st.handles \cup {<<r, n>>}]

\* tempFile(pattern) followed by defer f.Close() and defer os.Remove(f.Name()):
\* the locals, files and handles once the file named by suffix s is created
tempFile(r, st, pattern, field, s) ==
    LET n == TempName(pattern, s) IN
    [rec |-> [st.rec EXCEPT ![field] = n,
                            !.temps = @ + 1,
                            !.defers = @ \o <<Deferred("close", n),
                                              Deferred("remove", n)>>],
     files |-> [st.files EXCEPT ![n] = [owner |-> r, data |-> Empty]],
     handles |-> st.handles \cup {<<r, n>>}]

\* a TempFile that draws its suffix without looking at the directory
FreeSuffixes_Any(fs, pattern) == Suffixes

\* the suffix ioutil.TempFile draws: it never opens an existing file, so the
\* name is one that no file has.  Names are only ever compared with each
\* other, so the least unused suffix stands for every unused one.
FreeSuffixes(fs, pattern) ==
    LET free == {s \in Suffixes : fs[TempName(pattern, s)] = NoFile}
    IN  {s \in free : \A s2 \in free : s <= s2}

Now(r) == [rec |-> run[r], files |-> files, handles |-> handles]

\* mdbTmp, err := tempFile("prism.mdb"); n, err = io.Copy(mdbTmp, mdbR)
SaveMdb(r) ==
    /\ At(r, "savemdb")
    /\ UNCHANGED <<store, started, cancelled>>
    /\ \E made \in BOOLEAN :
         IF ~made
         THEN Return(r, run[r], "couldn't create temp file", files, handles)
         ELSE \E s \in FreeSuffixes(files, "prism.mdb"), ok \in BOOLEAN :
                LET st == tempFile(r, Now(r), "prism.mdb", "mdbTmp", s)
                    e == run[r].zipTmp.archive[run[r].mdbIdx]
                IN  IF ok
                    THEN /\ files' = [st.files EXCEPT ![st.rec.mdbTmp].data =
                                                        Blob("mdb", <<>>, e.data)]
                         /\ handles' = st.handles
                         /\ Goto(r, st.rec, "tosqlite")
                         /\ UNCHANGED hist
                    ELSE Return(r, st.rec, "couldn't read prism.mdb from zip",
                                st.files, st.handles)

\* the locals once a subprocess has printed out and the error renders it so
Emitted(rec, out, rendered) == [rec EXCEPT !.emitted = out, !.diag = rendered]

\* tmpSqlite, err := tempFile("prism.sqlite3"); then mdbToSqlite: java -jar
\* mdb-sqlite.jar <mdb> <sqlite>, and sqlite3 <sqlite> "analyze main;"
mdbToSqlite(r) ==
    /\ At(r, "tosqlite")
    /\ UNCHANGED <<store, started, cancelled>>
    /\ \E made \in BOOLEAN :
         IF ~made
         THEN Return(r, run[r], "couldn't create temp file", files, handles)
         ELSE \E s \in FreeSuffixes(files, "prism.sqlite3"), java \in BOOLEAN :
                LET st == tempFile(r, Now(r), "prism.sqlite3", "tmpSqlite", s)
                    db == st.rec.tmpSqlite
                    ran1 == [st.rec EXCEPT !.convs = Append(@, Ran("java", java))]
                    converted == [st.files EXCEPT ![db].data =
                                                    JavaOut(st.files[st.rec.mdbTmp].data)]
                IN  IF ~java
                    THEN \E out \in Outputs :
                         Return(r, Emitted(ran1, out, OutputV[out]), JavaError[out],
                                st.files, st.handles)
                    ELSE \E analyze \in BOOLEAN :
                         LET ran2 == [ran1 EXCEPT
                                        !.convs = Append(@, Ran("analyze", analyze))]
                         IN  IF ~analyze
                             THEN \E out \in Outputs :
                                  Return(r, Emitted(ran2, out, OutputV[out]),
                                         AnalyzeError[out], converted, st.handles)
                             ELSE /\ files' = [converted EXCEPT
                                                 ![db].data = AnalyzeOut(@)]
                                  /\ handles' = st.handles
                                  /\ Goto(r, ran2, "select")
                                  /\ UNCHANGED hist

\* querySqliteToCSV: os.Open of the query file (never closed), then sqlite3
querySqliteToCSV(r) ==
    /\ At(r, "select")
    /\ UNCHANGED <<store, started, cancelled>>
    /\ \E opened \in BOOLEAN :
         IF ~opened
         THEN Return(r, run[r], "open select_point_to_point_links.sql", files, handles)
         ELSE \E ok \in BOOLEAN :
              LET rec == [run[r] EXCEPT !.convs = Append(@, Ran("select", ok))]
                  hs == handles \cup {<<r, SqlHandle>>}
              IN  IF ok
                  THEN /\ Goto(r, [rec EXCEPT !.tmpCSV =
                                       SelectOut(files[run[r].tmpSqlite].data)],
                               "writecsv")
                       /\ handles' = hs
                       /\ UNCHANGED <<files, hist>>
                  ELSE \E out \in Outputs :
                       Return(r, Emitted(rec, out, OutputText[out]), SelectError[out],
                              files, hs)

\* the CSV write aimed at the object of the raw archive
WriteCSV_AsZIP(r) ==
    /\ At(r, "writecsv")
    /\ writeToGCS(r, ZIPKey(run[r].t), run[r].tmpCSV, "tojson")

\* Save prism.csv to GCS
WriteCSV(r) ==
    /\ At(r, "writecsv")
    /\ writeToGCS(r, CSVKey(run[r].t), run[r].tmpCSV, "tojson")

\* csvToJSON that does not look at the exit status of the converter
csvToJSON_ExitIgnored(r) ==
    /\ At(r, "tojson")
    /\ UNCHANGED <<store, started, cancelled>>
    /\ \E ok \in BOOLEAN :
       LET rec == [run[r] EXCEPT !.convs = Append(@, Ran("python", ok))] IN
       /\ Goto(r, [rec EXCEPT !.tmpJSON = PythonOut(run[r].tmpCSV)], "writelatest")
       /\ UNCHANGED <<files, handles, hist>>

\* csvToJSON: python3 csv2json2.py, CSV on stdin, JSON on stdout
csvToJSON(r) ==
    /\ At(r, "tojson")
    /\ UNCHANGED <<store, started, cancelled>>
    /\ \E ok \in BOOLEAN :
       LET rec == [run[r] EXCEPT !.convs = Append(@, Ran("python", ok))] IN
         IF ok
         THEN /\ Goto(r, [rec EXCEPT !.tmpJSON = PythonOut(run[r].tmpCSV)],
                      "writelatest")
              /\ UNCHANGED <<files, handles, hist>>
         ELSE \E out \in Outputs :
              Return(r, Emitted(rec, out, OutputText[out]), PythonError[out],
                     files, handles)

\* the first JSON write aimed at the timestamped object instead of latest
WriteLatest_Timestamped(r) ==
    /\ At(r, "writelatest")
    /\ writeToGCS(r, JSONKey(run[r].t), run[r].tmpJSON, "writejson")

\* the write of latest fed with the tabular extract instead of the JSON
WriteLatest_CSV(r) ==
    /\ At(r, "writelatest")
    /\ writeToGCS(r, LatestKey, run[r].tmpCSV, "writejson")

\* a write of latest that is left out when latest already holds the output
\* of a version with a newer timestamp
WriteLatest_IfNewer(r) ==
    /\ At(r, "writelatest")
    /\ IF hist.latestT > run[r].t
       THEN /\ Goto(r, run[r], "writejson")
            /\ UNCHANGED <<store, files, handles, started, cancelled, hist>>
       ELSE writeToGCS(r, LatestKey, run[r].tmpJSON, "writejson")

\* Save JSON to GCS: prism.json/latest
WriteLatest(r) ==
    /\ At(r, "writelatest")
    /\ writeToGCS(r, LatestKey, run[r].tmpJSON, "writejson")

\* the last write aimed at latest once more instead of the timestamped object
WriteJSON_Latest(r) ==
    /\ At(r, "writejson")
    /\ writeToGCS(r, LatestKey, run[r].tmpJSON, "return")

\* Finally save to a timestamped JSON file, and return nil
WriteJSON(r) ==
    /\ At(r, "writejson")
    /\ writeToGCS(r, JSONKey(run[r].t), run[r].tmpJSON, "return")

\* a cancellation that stops the run where it is
Cancel_Stops(r) ==
    /\ run[r].pc \notin {"idle", "done"}
    /\ r \notin cancelled
    /\ cancelled' = cancelled \cup {r}
    /\ run' = [run EXCEPT ![r].pc = "stopped"]
    /\ UNCHANGED <<store, files, handles, started, hist>>

\* the client of the request in slot r goes away: the context of the request
\* is cancelled.  fetchInternal works under context.Background() and starts
\* its subprocesses and its fetch without a context, so nothing of the run
\* sees it.
Cancel(r) ==
    /\ run[r].pc \notin {"idle", "done"}
    /\ r \notin cancelled
    /\ cancelled' = cancelled \cup {r}
    /\ UNCHANGED <<run, store, files, handles, started, hist>>

Next ==
    \E r \in Slots :
        \/ Start(r)
        \/ HttpGet(r)
        \/ ObjectExists(r)
        \/ ReadBody(r)
        \/ WriteZIP(r)
        \/ OpenZip(r)
        \/ SaveMdb(r)
        \/ mdbToSqlite(r)
        \/ querySqliteToCSV(r)
        \/ WriteCSV(r)
        \/ csvToJSON(r)
        \/ WriteLatest(r)
        \/ WriteJSON(r)

Spec == Init /\ [][Next]_vars

\* the steps of the run in slot r once its request was accepted
Step(r) ==
    \/ HttpGet(r) \/ ObjectExists(r) \/ ReadBody(r) \/ WriteZIP(r)
    \/ OpenZip(r) \/ SaveMdb(r) \/ mdbToSqlite(r)
    \/ querySqliteToCSV(r) \/ WriteCSV(r)
    \/ csvToJSON(r) \/ WriteLatest(r) \/ WriteJSON(r)

\* every blocking call of a run returns: no run stays at a call forever
FairSpec == Spec /\ \A r \in Slots : WF_vars(Step(r))

\* requests served one after the other, each of which the client may give up
\* at any point of its run; every call of the run returns
First == CHOOSE r \in Slots : \A q \in Slots : r <= q
SoloNext == Start(First) \/ Step(First) \/ Cancel(First)
SoloSpec == Init /\ [][SoloNext]_vars /\ WF_vars(Step(First))

TypeOK ==
    /\ \A r \in Slots : run[r].t \in Times \cup {NoTime}
    /\ \A k \in Keys : store[k].fmt \in {"none", "zip", "junk", "csv", "json"}
    /\ started \in 0..MaxRuns

(* ------------------------ properties ----------------------------------- *)
Done(r) == run[r].pc = "done"
Succeeded(r) == Done(r) /\ run[r].err = ""
Failed(r) == Done(r) /\ run[r].err # ""
\* slot r has just made the call it was waiting at
Stepped(r) == run'[r] # run[r]
\* this step is a completed store write of key k by the run in slot r
WroteNow(r, k) ==
    /\ Len(run'[r].writes) = Len(run[r].writes) + 1
    /\ run'[r].writes[Len(run'[r].writes)] = k
TimestampedKeys == Keys \ {LatestKey}
WriteFailed == "error writing to cloud storage"
CloseFailed == "error closing cloud storage writer"
AttrsFailed == "couldn't get attrs"
NotFound == "couldn't find prism.mdb: no prism.mdb found in prism.zip"

\* C1: when prism.json/<ts> exists at the existence check of a run that
\* fetched timestamp ts, the check ends the run: it returns nil unless the
\* attribute call itself failed, and in either case the run has started no
\* converter, created no staging file and written nothing, so that the bucket
\* and the temp directory are as they were before the run's check.
C1_SkipPublished ==
    [][\A r \in Slots :
         (At(r, "exists") /\ store[JSONKey(run[r].t)] # Absent /\ Stepped(r))
         => /\ run'[r].pc = "done"
            /\ run'[r].err \in {"", AttrsFailed}
            /\ run'[r].http = fetch(run'[r].err)
            /\ run'[r].writes = <<>>
            /\ run'[r].convs = <<>>
            /\ run'[r].temps = 0
            /\ store' = store
            /\ files' = files]_vars

\* a run short-circuited on a record that an earlier run had published
C1_Witness ==
    \E r \in Slots :
        /\ Succeeded(r) /\ run[r].exists
        /\ run[r].writes = <<>>
        /\ store[JSONKey(run[r].t)] # Absent

\* C2 as stated: a successful run for an unpublished version writes the raw
\* archive, the tabular extract, the timestamped structured record and then
\* the latest alias, in this order.
C2_Original ==
    \A r \in Slots :
        (Succeeded(r) /\ ~run[r].exists)
        => run[r].writes = <<ZIPKey(run[r].t), CSVKey(run[r].t),
                             JSONKey(run[r].t), LatestKey>>

\* C2 amended: a successful run for an unpublished version makes exactly four
\* store writes in the order prism.zip/<ts>, prism.csv/<ts>,
\* prism.json/latest, prism.json/<ts>: the latest alias is written before the
\* timestamped structured record, which is the last write of the run.
C2_WriteOrder ==
    \A r \in Slots :
        (Succeeded(r) /\ ~run[r].exists)
        => run[r].writes = <<ZIPKey(run[r].t), CSVKey(run[r].t),
                             LatestKey, JSONKey(run[r].t)>>

\* a run went through the whole pipeline and returned nil
C2_Witness ==
    \E r \in Slots :
        Succeeded(r) /\ ~run[r].exists /\ Len(run[r].writes) = 4

Quiescent == \A r \in Slots : run[r].pc \in {"idle", "done"}

\* C3 as stated: whenever no run is in progress, prism.json/latest holds the
\* structured output of the version handled by the most recent run that
\* returned nil (and nothing before any run did); a run that fails has not
\* changed it.
C3_Original ==
    Quiescent => store[LatestKey] = hist.lastOk

\* C3 amended: in every reachable state prism.json/latest holds the structured
\* output of the archive fetched by the run that most recently completed its
\* write of prism.json/latest (and is absent before any run did); a run
\* changes latest by that write only, so a run that fails before it leaves
\* latest as it was, while a run that fails at the final write of
\* prism.json/<ts> has already replaced latest.
C3_LatestContent ==
    store[LatestKey] = hist.latestBy

\* a run replaced latest and then failed at its final write
C3_Witness ==
    \E r \in Slots :
        /\ Failed(r) /\ Len(run[r].writes) = 3
        /\ store[LatestKey] # Absent
        /\ store[JSONKey(run[r].t)] = Absent

\* C4: in every reachable state, whatever runs have failed and wherever, if
\* prism.json/<ts> exists then prism.zip/<ts> and prism.csv/<ts> exist and
\* the content of prism.json/<ts> has been written to prism.json/latest.
C4_MarkerMeansComplete ==
    \A t \in Times :
        store[JSONKey(t)] # Absent
        => /\ store[ZIPKey(t)] # Absent
           /\ store[CSVKey(t)] # Absent
           /\ store[JSONKey(t)] \in hist.latestLog

\* a timestamped structured record exists and a run has failed part-way
C4_Witness ==
    \E t \in Times, r \in Slots :
        /\ store[JSONKey(t)] # Absent
        /\ Failed(r) /\ Len(run[r].writes) \in 1..3

\* C5 as stated: a timestamped key that has been written once is never
\* written again, by any run.
C5_Original ==
    [][\A r \in Slots : \A k \in TimestampedKeys :
         WroteNow(r, k) => store[k] = Absent]_vars

\* C5 amended: a run writes a timestamped key only if its own existence check
\* found prism.json/<ts> absent, and it writes each timestamped key at most
\* once; so no key of ts is written by a run that checks after prism.json/<ts>
\* was written, while prism.zip/<ts> and prism.csv/<ts> are written again by
\* the re-run after a failed run, and all three by concurrent runs that both
\* passed the check.  prism.json/latest is overwritten by every full run.
C5_WritesAfterAbsentCheck ==
    [][\A r \in Slots : \A k \in TimestampedKeys :
         WroteNow(r, k)
         => /\ ~run[r].seen
            /\ \A i \in DOMAIN run[r].writes : run[r].writes[i] # k]_vars

\* two runs have written the same timestamped key
C5_Witness ==
    \E r \in Slots, q \in Slots, k \in TimestampedKeys :
        /\ r # q
        /\ \E i \in DOMAIN run[r].writes : run[r].writes[i] = k
        /\ \E j \in DOMAIN run[q].writes : run[q].writes[j] = k

\* C6 as stated: whichever step fails, a run completes 0, 1, 2 or 4 store
\* writes, never 3.
C6_Original ==
    \A r \in Slots : Done(r) => Len(run[r].writes) \in {0, 1, 2, 4}

\* C6 amended: a run completes 0, 1, 2, 3 or 4 store writes: 4 exactly when it
\* returns nil after the full pipeline, and 3 only when the final write of
\* prism.json/<ts> fails, after prism.json/latest was written.
C6_WriteCounts ==
    \A r \in Slots :
        Done(r)
        => /\ Len(run[r].writes) \in 0..4
           /\ Len(run[r].writes) = 4 <=> (run[r].err = "" /\ ~run[r].exists)
           /\ Len(run[r].writes) = 3
                => /\ run[r].err \in {WriteFailed, CloseFailed}
                   /\ run[r].writes = <<ZIPKey(run[r].t), CSVKey(run[r].t), LatestKey>>

\* a run ended with three completed writes
C6_Witness ==
    \E r \in Slots : Failed(r) /\ Len(run[r].writes) = 3

\* a run for timestamp t has failed after writing some record
FailedPartWay(t) ==
    \E q \in Slots : Failed(q) /\ run[q].t = t /\ run[q].writes # <<>>

\* C7: after a run for ts failed having written some records but not
\* prism.json/<ts>, the existence check of a later run for ts answers "not
\* present" (or fails), the run goes on to the pipeline, every call of it
\* either fails or takes it to the next statement, and when it returns nil it
\* has made all four writes and prism.json/<ts> exists.
C7_RerunRedoes ==
    [][\A r \in Slots :
         (/\ Stepped(r) /\ ~Done(r) /\ run[r].t \in Times
          /\ store[JSONKey(run[r].t)] = Absent
          /\ FailedPartWay(run[r].t))
         => /\ run'[r].pc # run[r].pc
            /\ At(r, "exists")
                => \/ run'[r].pc = "readbody"
                   \/ run'[r].pc = "done" /\ run'[r].err = AttrsFailed
            /\ (run'[r].pc = "done" /\ run'[r].err = "")
                => /\ store'[JSONKey(run[r].t)] # Absent
                   /\ Len(run'[r].writes) = 4]_vars

\* a run failed part-way, and another run for the same timestamp went through
\* the whole pipeline and published the structured record
C7_Witness ==
    \E r \in Slots :
        /\ Succeeded(r) /\ ~run[r].exists /\ Len(run[r].writes) = 4
        /\ FailedPartWay(run[r].t)
        /\ store[JSONKey(run[r].t)] # Absent

\* converter c was started by the run in slot r and exited with failure
ConvFailed(r, c) ==
    \E i \in DOMAIN run[r].convs : run[r].convs[i] = Ran(c, FALSE)

\* C8: a run that looks for prism.mdb in an archive without an entry of that
\* name fails with the not-found error; its only store write is
\* prism.zip/<ts>, it starts no converter and creates no staging file.
C8_NoMdbEntry ==
    \A r \in Slots :
        (run[r].looked /\ ~run[r].hasMdb)
        => /\ Failed(r)
           /\ run[r].err = NotFound
           /\ run[r].writes = <<ZIPKey(run[r].t)>>
           /\ run[r].convs = <<>>
           /\ run[r].temps = 0

\* a run failed on an archive without prism.mdb
C8_Witness ==
    \E r \in Slots : run[r].looked /\ ~run[r].hasMdb /\ Failed(r)

\* C9: when a converter exits with failure the run fails, and nothing of that
\* stage or a later one is written: after a failure of java, analyze or the
\* extraction the run has written prism.zip/<ts> only, after a failure of the
\* structuring converter prism.zip/<ts> and prism.csv/<ts> only.
C9_ConverterFailure ==
    \A r \in Slots :
        /\ (ConvFailed(r, "java") \/ ConvFailed(r, "analyze") \/ ConvFailed(r, "select"))
            => (Failed(r) /\ run[r].writes = <<ZIPKey(run[r].t)>>)
        /\ ConvFailed(r, "python")
            => (Failed(r) /\ run[r].writes = <<ZIPKey(run[r].t), CSVKey(run[r].t)>>)

\* runs have failed in the relational converter and in the structuring one
C9_Witness ==
    \E r \in Slots, q \in Slots :
        ConvFailed(r, "java") /\ ConvFailed(q, "python")

\* C10: when fetchInternal has returned, with nil or with any error, no
\* staging file the run created exists any more and no handle on one is open.
C10_StagingFilesReleased ==
    \A r \in Slots :
        Done(r)
        => /\ \A n \in TempNames : files[n].owner # r
           /\ \A n \in TempNames : <<r, n>> \notin handles
           /\ run[r].unclosed \cap TempNames = {}

\* runs have ended after creating staging files: one in failure, one with nil
C10_Witness ==
    \E r \in Slots, q \in Slots :
        /\ Failed(r) /\ run[r].temps >= 1
        /\ Succeeded(q) /\ run[q].temps = 2

GetFailed == "Get: connection failed"
ParseFailed == "Couldn't parse Last-Modified header"

\* C11: when the origin answers with a Last-Modified header that is absent,
\* empty or not in the HTTP date format, the run ends at once with the
\* timestamp error: it goes from the fetch straight to its return, so it does
\* no existence check and reads no body, and it has written nothing to the
\* bucket, created no staging file and started no converter.
C11_BadTimestamp ==
    [][\A r \in Slots :
         (/\ At(r, "get") /\ Stepped(r)
          /\ run'[r].err # GetFailed
          /\ ~ParseHTTPTime(run'[r].hdr).ok)
         => /\ run'[r].pc = "done"
            /\ run'[r].err = ParseFailed
            /\ run'[r].http.status = 500
            /\ run'[r].writes = <<>>
            /\ run'[r].convs = <<>>
            /\ run'[r].temps = 0
            /\ store' = store
            /\ files' = files]_vars

\* runs have failed on an absent header and on a malformed one
C11_Witness ==
    \E r \in Slots, q \in Slots :
        /\ Failed(r) /\ run[r].err = ParseFailed /\ run[r].hdr = ""
        /\ Failed(q) /\ run[q].err = ParseFailed /\ run[q].hdr = "yesterday"

\* C12 as stated: when the origin cannot be reached, or answers with a
\* non-success status, the run ends at the fetch with the fetch error; it
\* does no existence check and changes nothing in the bucket.
C12_Original ==
    [][\A r \in Slots :
         (/\ At(r, "get") /\ Stepped(r)
          /\ (run'[r].err = GetFailed \/ run'[r].status \notin {0, 200}))
         => /\ run'[r].pc = "done"
            /\ run'[r].err = GetFailed
            /\ run'[r].writes = <<>>
            /\ store' = store]_vars

\* the four records a lone successful run publishes for timestamp t from body
Published(t, body) ==
    (ZIPKey(t) :> body)
    @@ (CSVKey(t) :> Blob("csv", <<>>, StructuredOutput(body).d))
    @@ (JSONKey(t) :> StructuredOutput(body))
    @@ (LatestKey :> StructuredOutput(body))

\* the runs in slots r and q both went through the whole pipeline for the
\* same timestamp and the same archive: neither saw the other's marker
RacedOnSameVersion(r, q) ==
    /\ r # q
    /\ Succeeded(r) /\ ~run[r].exists
    /\ Succeeded(q) /\ ~run[q].exists
    /\ run[r].t = run[q].t
    /\ run[r].zipTmp = run[q].zipTmp

\* C13: runs are not serialized.  When two runs for the same version both
\* pass the existence check before either has written prism.json/<ts> and
\* neither fails, both make the same four writes, and however their steps
\* interleave the four records then hold what a single successful run for
\* that version leaves there.
C13_ConcurrentSameVersion ==
    \A r \in Slots, q \in Slots :
        RacedOnSameVersion(r, q)
        => /\ run[r].writes = run[q].writes
           /\ Len(run[r].writes) = 4
           /\ \A k \in DOMAIN Published(run[r].t, run[r].zipTmp) :
                 store[k] = Published(run[r].t, run[r].zipTmp)[k]

\* two overlapping runs have both published the same version
C13_Witness ==
    \E r \in Slots, q \in Slots : RacedOnSameVersion(r, q)

\* the staging file names the run in slot r holds
Holds(r) == {run[r].mdbTmp, run[r].tmpSqlite} \ {NoName}
AfterSaveMdb == {"tosqlite", "select", "writecsv", "tojson", "writelatest", "writejson"}
AfterMdbToSqlite == AfterSaveMdb \ {"tosqlite"}

\* C14: however concurrent runs interleave, a staging file belongs to exactly
\* the run that created it: the names two runs hold are disjoint, every file
\* in the temp directory and every open handle on one is held by its creator,
\* and each file holds what its own run put there (the database of the run's
\* own archive, the conversion of the run's own database), so no other run has
\* written, truncated or deleted it.
C14_StagingFilesPrivate ==
    \A r \in Slots :
        /\ \A n \in TempNames : files[n].owner = r <=> n \in Holds(r)
        /\ \A n \in TempNames : <<r, n>> \in handles => n \in Holds(r)
        /\ \A q \in Slots \ {r} : Holds(r) \cap Holds(q) = {}
        /\ run[r].pc \in AfterSaveMdb
            => files[run[r].mdbTmp].data =
                 Blob("mdb", <<>>, run[r].zipTmp.archive[run[r].mdbIdx].data)
        /\ run[r].pc \in AfterMdbToSqlite
            => files[run[r].tmpSqlite].data =
                 Blob("sqlite+stat", <<>>, run[r].zipTmp.archive[run[r].mdbIdx].data)

\* two runs hold staging files of both kinds at the same time
C14_Witness ==
    \E r \in Slots, q \in Slots :
        /\ r # q
        /\ Cardinality(Holds(r)) = 2
        /\ Cardinality(Holds(q)) = 2

\* the slots that hold a run, in progress or returned
RunsInSlots == Cardinality({r \in Slots : run[r].pc # "idle"})

\* C15: a request starts one run, never more: no slot holds a run unless a
\* request was accepted for it.  When the run has returned, the response is
\* status 200 with body "OK" exactly when it returned nil, and for every error
\* it is status 500 with the body "/fetch failed: " followed by the error's
\* message.
C15_ResponseReflectsResult ==
    /\ RunsInSlots <= started
    /\ \A r \in Slots :
          /\ ~Done(r) => run[r].http = NoResponse
          /\ Done(r)
              => /\ run[r].http = [status |-> 200, body |-> "OK"] <=> run[r].err = ""
                 /\ run[r].err # ""
                     => /\ run[r].http.status = 500
                        /\ run[r].http.body = "/fetch failed: " \o run[r].err
                        /\ run[r].err \in Errors

\* one request was answered OK and another with an error of a converter
C15_Witness ==
    \E r \in Slots, q \in Slots :
        /\ Succeeded(r) /\ run[r].http.body = "OK"
        /\ Failed(q) /\ ConvFailed(q, "select") /\ run[q].http.status = 500

\* the characters of needle occur in hay, in a row
Contains(hay, needle) ==
    \E i \in 0..(Len(hay) - Len(needle)) :
        SubSeq(hay, i + 1, i + Len(needle)) = needle

\* C16 as stated: when the relational converter or the analyze pass exits
\* non-zero after printing a diagnostic, the text of the diagnostic occurs in
\* the error the run returns.
C16_Original ==
    \A r \in Slots :
        (/\ ConvFailed(r, "java") \/ ConvFailed(r, "analyze")
         /\ run[r].emitted # <<>>)
        => Contains(run[r].diag, BufferString(run[r].emitted))

\* the calls of fetchInternal in the order of its text
Stages == <<"get", "exists", "readbody", "writezip", "openzip", "savemdb",
            "tosqlite", "select", "writecsv", "tojson", "writelatest", "writejson">>
StageOf(pc) == CHOOSE i \in DOMAIN Stages : Stages[i] = pc
IsPrefix(a, b) == Len(a) <= Len(b) /\ SubSeq(b, 1, Len(a)) = a
ConverterOrder == <<"java", "analyze", "select", "python">>
WriteOrder(t) == <<ZIPKey(t), CSVKey(t), LatestKey, JSONKey(t)>>

\* every call of the run in slot r that has returned so far succeeded, except
\* possibly the last one, and the calls were made in the order of the text
InOrderSoFar(r) ==
    /\ IsPrefix([i \in DOMAIN run[r].convs |-> run[r].convs[i].conv], ConverterOrder)
    /\ \A i \in DOMAIN run[r].convs : i < Len(run[r].convs) => run[r].convs[i].ok
    /\ IsPrefix(run[r].writes, WriteOrder(run[r].t))
    /\ ~Done(r) => /\ run[r].err = ""
                   /\ \A i \in DOMAIN run[r].convs : run[r].convs[i].ok

\* C17: the stages of a run execute one after the other in the order of the
\* text, each at most once: a call that succeeds takes the run to the next
\* stage and to no other, a call that fails ends the run with an error, and
\* the run ends without error only by the skip at the existence check or
\* after the last write; converters and store writes happen in their fixed
\* order, each after the success of all those before it, and none twice.
C17_StagesInSequence ==
    /\ [][\A r \in Slots :
            (Stepped(r) /\ run[r].pc \notin {"idle", "done"})
            => \/ /\ run'[r].pc # "done"
                  /\ StageOf(run[r].pc) < Len(Stages)
                  /\ run'[r].pc = Stages[StageOf(run[r].pc) + 1]
               \/ /\ run'[r].pc = "done"
                  /\ run'[r].err = "" => run[r].pc \in {"exists", "writejson"}]_vars
    /\ [](\A r \in Slots : InOrderSoFar(r))

\* one run went through every stage, another was ended by the analyze pass
C17_Witness ==
    \E r \in Slots, q \in Slots :
        /\ Succeeded(r) /\ Len(run[r].convs) = 4 /\ Len(run[r].writes) = 4
        /\ Failed(q) /\ ConvFailed(q, "analyze") /\ Len(run[q].writes) = 1

\* C18: objectExists answers (false, nil) for storage.ErrObjectNotExist,
\* (true, nil) for attributes and an error for every other failure of Attrs.
\* At the existence check the run is ended by that error, having read no
\* body and written nothing; it skips only when the record is there and goes
\* on to read the body only when the record is not there, so a failed
\* attribute call counts neither as "present" nor as "absent".
C18_UnknownIsAnError ==
    /\ [](/\ objectExists("attrs") = [exists |-> TRUE, err |-> ""]
          /\ objectExists("ErrObjectNotExist") = [exists |-> FALSE, err |-> ""]
          /\ objectExists("unavailable").err # "")
    /\ [][\A r \in Slots :
            (At(r, "exists") /\ Stepped(r))
            => /\ run'[r].err = AttrsFailed
                   => /\ run'[r].pc = "done"
                      /\ ~run'[r].exists
                      /\ run'[r].writes = <<>>
                      /\ store' = store
               /\ (run'[r].pc = "done" /\ run'[r].err = "")
                   => store[JSONKey(run[r].t)] # Absent /\ run'[r].exists
               /\ run'[r].pc # "done"
                   => /\ store[JSONKey(run[r].t)] = Absent
                      /\ run'[r].pc = "readbody"
                      /\ run'[r].zipTmp = Empty]_vars

\* the attribute call of a run failed on a record that an earlier run had
\* published
C18_Witness ==
    \E r \in Slots, q \in Slots :
        /\ Failed(r) /\ run[r].err = AttrsFailed /\ run[r].seen
        /\ Succeeded(q) /\ run[q].t = run[r].t /\ Len(run[q].writes) = 4

\* the run in slot r has taken the skip decision: its existence check answered
Decided(r) ==
    /\ run[r].t \in Times
    /\ run[r].pc # "exists"
    /\ run[r].err # AttrsFailed

\* C19: the skip decision is a function of the timestamp read from
\* Last-Modified and of the presence of prism.json/<ts>, and of nothing else:
\* two runs that had the same timestamp and found the same presence decided
\* the same, whatever bodies the origin served them; a run whose check
\* answers skips exactly when prism.json/<ts> is there, also when the body
\* served differs from what is published under ts, and goes on when it is not
\* there, also when that content is published under another timestamp.
C19_SkipKeyedOnTimestamp ==
    /\ [](\A r \in Slots, q \in Slots :
            (/\ Decided(r) /\ Decided(q)
             /\ run[r].t = run[q].t
             /\ run[r].seen = run[q].seen)
            => run[r].exists = run[q].exists)
    /\ [][\A r \in Slots :
            (At(r, "exists") /\ Stepped(r) /\ run'[r].err # AttrsFailed)
            => /\ run'[r].exists <=> store[JSONKey(run[r].t)] # Absent
               /\ run'[r].exists <=> run'[r].pc = "done"]_vars

\* a run skipped an archive whose content differs from what is published
\* under its timestamp
C19_Witness ==
    \E r \in Slots :
        /\ Succeeded(r) /\ run[r].exists
        /\ HasMdb(run[r].served)
        /\ StructuredOutput(run[r].served) # store[JSONKey(run[r].t)]

WritePcs == {"writezip", "writecsv", "writelatest", "writejson"}
\* the object and the stream of the call of writeToGCS the run in slot r is at
KeyAt(r) ==
    CASE run[r].pc = "writezip" -> ZIPKey(run[r].t)
      [] run[r].pc = "writecsv" -> CSVKey(run[r].t)
      [] run[r].pc = "writelatest" -> LatestKey
      [] OTHER -> JSONKey(run[r].t)
StreamAt(r) ==
    CASE run[r].pc = "writezip" -> run[r].zipTmp
      [] run[r].pc = "writecsv" -> run[r].tmpCSV
      [] OTHER -> run[r].tmpJSON

\* C20: a call of writeToGCS is all or nothing for its key.  When it returns
\* an error, of the copy or of the close, every object of the bucket is what
\* it was before the call; when it returns nil, the object of the key holds
\* the whole stream and no other object has changed; at no time does the key
\* hold anything but its old content or the whole stream.
C20_WriteAllOrNothing ==
    [][\A r \in Slots :
         (run[r].pc \in WritePcs /\ Stepped(r))
         => /\ store'[KeyAt(r)] \in {store[KeyAt(r)], StreamAt(r)}
            /\ \A k \in Keys \ {KeyAt(r)} : store'[k] = store[k]
            /\ run'[r].err # ""
                => /\ run'[r].err \in {WriteFailed, CloseFailed}
                   /\ store' = store
                   /\ run'[r].writes = run[r].writes
            /\ run'[r].err = ""
                => /\ store'[KeyAt(r)] = StreamAt(r)
                   /\ run'[r].writes = Append(run[r].writes, KeyAt(r))]_vars

\* the close of a writer failed on prism.json/latest when an earlier run had
\* written it: the alias still holds what that run wrote
C20_Witness ==
    \E r \in Slots :
        /\ Failed(r) /\ run[r].err = CloseFailed
        /\ run[r].writes = <<ZIPKey(run[r].t), CSVKey(run[r].t)>>
        /\ ~ConvFailed(r, "python") /\ Len(run[r].convs) = 4
        /\ store[LatestKey] # Absent

InProgress(r) == run[r].pc \notin {"idle", "done"}
\* the run in slot r has returned and has left no staging file behind
EndedClean(r) ==
    /\ Done(r)
    /\ run[r].http = fetch(run[r].err)
    /\ \A n \in TempNames : files[n].owner # r

\* C21: when every call a run makes returns, a run that has started ends, in
\* success or with an error, and leaves no staging file; giving up the request
\* changes nothing of the run, which ends all the same and removes its
\* staging files.
C21_RunsEnd ==
    /\ \A r \in Slots : InProgress(r) ~> EndedClean(r)
    /\ \A r \in Slots :
          (InProgress(r) /\ r \in cancelled) ~> (EndedClean(r) /\ r \in cancelled)
    /\ [][cancelled' # cancelled
            => (\A r \in Slots : InProgress(r) => run'[r] = run[r])
               /\ files' = files /\ store' = store]_vars

\* a request was given up while its run was in progress, and the run went
\* through the whole pipeline and removed its staging files
C21_Witness ==
    \E r \in Slots :
        /\ r \in cancelled
        /\ EndedClean(r)
        /\ run[r].temps = 2 /\ Len(run[r].writes) = 4

\* C22: whenever a run has returned nil, by the skip at the existence check
\* or after the whole pipeline, prism.json/<ts> exists for the timestamp the
\* run read from Last-Modified, and it exists from then on.
C22_SuccessMeansPublished ==
    \A r \in Slots :
        Succeeded(r)
        => /\ run[r].t \in Times
           /\ run[r].t = ParseHTTPTime(run[r].hdr).t
           /\ store[JSONKey(run[r].t)] # Absent
           /\ run[r].exists \/ Len(run[r].writes) = 4

\* one run returned nil after the whole pipeline and another by the skip
C22_Witness ==
    \E r \in Slots, q \in Slots :
        /\ Succeeded(r) /\ ~run[r].exists
        /\ Succeeded(q) /\ run[q].exists

\* the run in slot r completes its write of prism.json/latest in this step
WroteLatest(r) == run[r].pc = "writelatest" /\ run'[r].pc = "writejson"

\* C23 as stated: over any sequence of runs, concurrent ones that fetched
\* different versions included, prism.json/latest never changes from the
\* structured output of a version with a newer timestamp to that of a version
\* with an older one.
C23_Original ==
    [][store'[LatestKey] # store[LatestKey] /\ hist.latestT # NoTime
           => hist'.latestT >= hist.latestT]_vars

\* C23 amended: prism.json/latest is replaced by every run that reaches its
\* write of latest, with no comparison of timestamps: after the write latest
\* holds the structured output of that run, whatever the timestamp of the
\* version it held before, so it can go from a newer version to an older one;
\* and only such a write, by a run that found no prism.json/<ts> for its own
\* timestamp, changes latest.
C23_LatestFollowsLastWriter ==
    [][(\A r \in Slots :
           WroteLatest(r)
           => /\ hist'.latestT = run[r].t
              /\ store'[LatestKey] = run[r].tmpJSON)
       /\ ((store'[LatestKey] # store[LatestKey] \/ hist'.latestT # hist.latestT)
           => \E r \in Slots : WroteLatest(r) /\ ~run[r].exists)]_vars

\* a run for the newer timestamp wrote latest and returned nil, and a run for
\* the older timestamp then replaced latest with another output
C23_Witness ==
    \E r \in Slots, q \in Slots :
        /\ Succeeded(q) /\ run[q].t = 2 /\ Len(run[q].writes) = 4
        /\ run[r].t = 1 /\ Len(run[r].writes) >= 3
        /\ hist.latestT = 1
        /\ store[LatestKey] = run[r].tmpJSON
        /\ store[LatestKey] # store[JSONKey(2)]

\* C24 as stated: every file handle a run opens is closed by the time the run
\* ends, with nil or with any error, the handle on
\* select_point_to_point_links.sql that querySqliteToCSV opens included, so
\* that the runs that have ended hold no handle open.
C24_Original ==
    \A r \in Slots :
        Done(r)
        => /\ run[r].unclosed = {}
           /\ \A h \in handles : h[1] # r

====
